---------------------------- MODULE Spec2Model ----------------------------
(***************************************************************************)
(* Narrator: one streaming narration session (narrateTextStreaming /       *)
(* narrateScriptStreaming) with its StreamingAudioPlayer, its WebSocket    *)
(* and the AudioContext the player owns.                                   *)
(*                                                                         *)
(* Time is counted in ticks of 0.1 s.  Sample values are thousandths       *)
(* (1000 is 1.0).  Sample rates are scaled by 2205: rate 10 stands for the *)
(* player's default 22050 Hz, rate 5 for 11025 Hz, so that one sample at   *)
(* rate 10 lasts one tick.                                                 *)
(***************************************************************************)
EXTENDS Integers, Sequences, FiniteSets, TLC

(* ------------------------------ bounds -------------------------------- *)

\* messages the server sends in one session
MaxMsgs == 3
\* last value of the device clock in a session
MaxClock == 2
\* chunks submitted to a player on its own
MaxChunks == 3
\* last value of the device clock of a player on its own
MaxPlayClock == 3
\* lines of the body of a script file
MaxLines == 3
\* narrations the user starts
MaxSessions == 2
\* audio messages a session of the plugin handles
MaxHostChunks == 2
\* samples given to the encoder
MaxSamples == 3
\* dialogue lines given to the validation
MaxDialogue == 3
\* keys of the frontmatter of a script
MaxKeys == 2

\* lines of a script body given to getCleanScriptContent
MaxCleanLines == 4
\* voice previews the user asks for
MaxPreviews == 3
\* requests of the API client under way at a time
MaxRequests == 3

(* ------------------------- program constants -------------------------- *)

\* private sampleRate = 22050 and msg.sample_rate || 22050 (scaled by 2205)
DefaultSampleRate == 10
\* scheduledTime = currentTime + 0.1
Lead == 1
\* waitTime = (remainingTime + 0.1) * 1000
SafetyMargin == 1

(* ------------------------------ inputs -------------------------------- *)

\* audio payloads a message can carry: decoded samples and msg.sample_rate
\* (0: the field is absent).  The empty payload decodes to an empty
\* Float32Array, which createBuffer refuses.
ChunkA == [data |-> <<1500>>, rate |-> 0]
ChunkB == [data |-> <<-500>>, rate |-> 5]
ChunkE == [data |-> <<>>, rate |-> 10]
Payloads == {ChunkA, ChunkB, ChunkE}

\* msg.message of an error message ("": the field is absent or empty)
Messages == {"", "voice not found"}

Max(a, b) == IF a >= b THEN a ELSE b
Min(a, b) == IF a <= b THEN a ELSE b

(* --------------------------- wavEncoder.ts ---------------------------- *)

\* view.setUint32(offset, v, true)
U32le(v) == << v % 256, (v \div 256) % 256, (v \div 65536) % 256,
               (v \div 16777216) % 256 >>

\* view.setUint16(offset, v, true)
U16le(v) == << v % 256, (v \div 256) % 256 >>

\* a faulty variant: the sample is scaled without the clamp, and the
\* Int16Array keeps the low 16 bits
ToInt16Unclamped(s) ==
    LET v == IF s < 0 THEN 0 - (((0 - s) * 32768) \div 1000)
             ELSE (s * 32767) \div 1000
        w == v % 65536
    IN  IF w >= 32768 THEN w - 65536 ELSE w

\* Math.max(-1, Math.min(1, s)), then s < 0 ? s * 0x8000 : s * 0x7fff,
\* stored into an Int16Array (truncation toward zero)
ToInt16(s) ==
    LET c == Max(-1000, Min(1000, s))
    IN  IF c < 0 THEN 0 - (((0 - c) * 32768) \div 1000)
        ELSE (c * 32767) \div 1000

\* view.setInt16(offset, v, true)
I16le(v) == U16le(IF v < 0 THEN v + 65536 ELSE v)

RECURSIVE SampleBytes(_)
SampleBytes(samples) ==
    IF samples = <<>> THEN <<>>
    ELSE I16le(ToInt16(Head(samples))) \o SampleBytes(Tail(samples))

\* a faulty variant: the RIFF size field counts the whole file
EncodeWAVWholeFile(samples, sampleRate) ==
    LET dataLength == Len(samples) * 2
    IN  <<82, 73, 70, 70>> \o U32le(44 + dataLength) \o <<87, 65, 86, 69>>
        \o <<102, 109, 116, 32>> \o U32le(16) \o U16le(1) \o U16le(1)
        \o U32le(sampleRate) \o U32le(sampleRate * 1 * 2) \o U16le(1 * 2)
        \o U16le(2 * 8)
        \o <<100, 97, 116, 97>> \o U32le(dataLength)
        \o SampleBytes(samples)

\* the 44-byte header followed by the 16-bit samples
EncodeWAV(samples, sampleRate) ==
    LET dataLength == Len(samples) * 2
    IN  <<82, 73, 70, 70>> \o U32le(36 + dataLength) \o <<87, 65, 86, 69>>
        \o <<102, 109, 116, 32>> \o U32le(16) \o U16le(1) \o U16le(1)
        \o U32le(sampleRate) \o U32le(sampleRate * 1 * 2) \o U16le(1 * 2)
        \o U16le(2 * 8)
        \o <<100, 97, 116, 97>> \o U32le(dataLength)
        \o SampleBytes(samples)

(* ------------------------ StreamingAudioPlayer ------------------------ *)

\* msg.sample_rate || 22050
EffectiveRate(r) == IF r = 0 THEN DefaultSampleRate ELSE r

\* audioBuffer.duration = length / sampleRate, in ticks (10 * Lead ticks
\* are one second)
Duration(len, rate) == (len * 10 * Lead) \div rate

\* getCollectedAudio: the retained chunks concatenated in order
RECURSIVE GetCollectedAudio(_)
GetCollectedAudio(chunks) ==
    IF chunks = <<>> THEN <<>>
    ELSE Head(chunks) \o GetCollectedAudio(Tail(chunks))


\* a faulty variant: stopping also drops the retained chunks
StopClears(p) ==
    [p EXCEPT !.sources = <<>>, !.isPlaying = FALSE, !.isPaused = FALSE,
              !.scheduledTime = 0, !.startTime = 0, !.audioChunks = <<>>]

\* stop(): drop every scheduled source and clear the playback fields; the
\* retained chunks and the sample rate are kept
Stop(p) ==
    [p EXCEPT !.sources = <<>>, !.isPlaying = FALSE, !.isPaused = FALSE,
              !.scheduledTime = 0, !.startTime = 0]

\* reset(): stop(), then forget the retained chunks and the sample rate
Reset(p) ==
    [Stop(p) EXCEPT !.audioChunks = <<>>, !.sampleRate = DefaultSampleRate]

\* a faulty variant: the sample rate is taken from the first chunk only
RetainFirstRate(p, data, rate) ==
    [p EXCEPT !.audioChunks = Append(@, data),
              !.sampleRate = IF p.audioChunks = <<>> THEN rate ELSE @]

\* addPCMChunk, up to the AudioContext.resume() it may await: retain the
\* chunk and take over its sample rate
Retain(p, data, rate) ==
    [p EXCEPT !.audioChunks = Append(@, data), !.sampleRate = rate]

\* a faulty variant: a chunk resumes a suspended context, paused or not
NeedsResumeWhenPaused(st, p) == st = "suspended"

\* addPCMChunk: the context is resumed when it is suspended, but not when
\* the user has paused
NeedsResume(st, p) == st = "suspended" /\ ~p.isPaused

\* addPCMChunk: the first chunk of a run sets the scheduling anchor
Anchor(p, now) ==
    IF ~p.isPlaying
    THEN [p EXCEPT !.isPlaying = TRUE, !.scheduledTime = now + Lead,
                   !.startTime = now]
    ELSE p

\* a faulty variant: the next start is counted from the current device time
NextFromNow(sched, dur, now) == now + dur

\* scheduledTime += audioBuffer.duration
NextScheduledTime(sched, dur, now) == sched + dur

\* addPCMChunk: source.start(scheduledTime).  A start time that is already
\* past on the device clock makes the source begin at once.
Schedule(p, data, rate, now) ==
    LET dur == Duration(Len(data), rate)
    IN  [p EXCEPT !.sources = Append(@, [when |-> p.scheduledTime,
                                          begin |-> Max(p.scheduledTime, now),
                                          dur |-> dur]),
                  !.scheduledTime = NextScheduledTime(@, dur, now)]

\* createBuffer(1, length, sampleRate) throws for a zero length
DeviceAccepts(data) == Len(data) > 0

\* getRemainingPlaybackTime
GetRemainingPlaybackTime(p, now) ==
    IF ~p.isPlaying THEN 0 ELSE Max(0, p.scheduledTime - now)

\* a faulty variant: the socket is left as it is
LeaveChannel(ws) == ws

\* ws.close(): closing a socket that is still connecting fails the
\* connection, which the browser reports with an error event
CloseChannel(ws) ==
    IF ws \in {"connecting", "failing"} THEN "failing" ELSE "closed"

(* ------------------------------- state -------------------------------- *)

VARIABLES
    ctxState,     \* AudioContext.state
    currentTime,  \* AudioContext.currentTime
    ctxOps,       \* suspend/resume/close requests the device has not done
    player,       \* the fields of the StreamingAudioPlayer
    wsState,      \* the WebSocket
    sent,         \* onopen has sent the request
    script,       \* the script file narrateScript is called on
    host,         \* the plugin: the sessions it has started and the
                  \* player attached to the status bar
    parsed,       \* the script parser: the frontmatter data and the
                  \* voices extracted from it, the dialogue lines, and
                  \* the result of the validation
    wav,          \* a call of encodeWAV: its arguments and what it
                  \* returned
    notices,      \* the notices narrateScript has shown
    chunkCount,   \* chunkCount of the session closure
    timers,       \* pending setTimeout callbacks: time left of each
    completed,    \* onComplete calls: the buffer passed, and the playback
                  \* time that was left when the finalizer started
    errors,       \* onError calls: the message of the error passed
    cancelled,    \* cancel() has been called
    recv,         \* audio payloads decoded so far, in arrival order
    seen,         \* completion message types received
    failure,      \* the failure the session has met: "server" (error
                  \* message), "decode" (undecodable message), "device"
                  \* (the device refused a chunk), "transport" (error
                  \* event), "closed" (closed by the server before a
                  \* completion message), "resume" (the resume() of a
                  \* chunk met a closed context), "several" of them, or
                  \* "none"
    lateAudio,    \* an audio message arrived after a finalComplete
    runLog,       \* source.start calls of the current playback run
    nMsgs,        \* messages delivered to the session, or chunks given
                  \* to a player on its own
    api           \* the API client: its configuration, the response the
                  \* server gives, and the outcome of apiRequest

vars == << ctxState, currentTime, ctxOps, player, wsState, sent, script,
           notices, host, wav, parsed,
           chunkCount, timers, completed, errors, cancelled, recv, seen,
           failure, lateAudio, runLog, nMsgs, api >>

\* no file: isScriptFile has nothing to look at
NoFile ==
    [extension |-> "", basename |-> <<>>, frontmatter |-> FALSE,
     narrator_script |-> "absent"]

\* initApiClient has not been called and no request has been made
NoApi ==
    [config |-> "null", response |-> [status |-> 0, body |-> "none"],
     fetched |-> FALSE, outcome |-> "none", status |-> 0]

\* nothing has been extracted, parsed or validated
NoParse ==
    [meta |-> <<>>, voices |-> <<>>, stage |-> "none", lines |-> <<>>,
     isValid |-> FALSE, errors |-> <<>>, warnings |-> <<>>,
     unmappedCharacters |-> {}, file |-> NoFile, isScript |-> FALSE,
     cleaned |-> <<>>]

\* encodeWAV has not been called
NoWav == [samples |-> <<>>, sampleRate |-> 0, done |-> FALSE,
          threw |-> FALSE, bytes |-> <<>>]

\* the plugin after onload: no session started, no player attached to the
\* status bar, no handle returned and waiting to be attached, the button
\* of the status bar on "Play", the loading indicator hidden with no
\* request counted, no request of the API client under way, and no voice
\* preview asked for
NoHost ==
    [sessions |-> <<>>, currentPlayer |-> 0, returned |-> 0,
     isPlaying |-> FALSE, activeRequests |-> 0, spinner |-> "none",
     requests |-> 0, previews |-> <<>>]

\* a session started by narrateFile or narrateText has no script
NoScript ==
    [isScript |-> FALSE, content |-> <<>>, voices |-> <<>>,
     defaultVoice |-> <<>>]

\* new StreamingAudioPlayer()
NewPlayer ==
    [audioChunks |-> <<>>, sources |-> <<>>, isPlaying |-> FALSE,
     isPaused |-> FALSE, scheduledTime |-> 0, startTime |-> 0,
     sampleRate |-> DefaultSampleRate]

\* the state when narrate*Streaming returns {player, cancel}: the player
\* and the socket are created, nothing has been received.  A new
\* AudioContext starts running, or suspended where autoplay is blocked.
Init ==
    /\ ctxState \in {"running", "suspended"}
    /\ currentTime = 0
    /\ ctxOps = <<>>
    /\ player = NewPlayer
    /\ wsState = "connecting"
    /\ sent = FALSE
    /\ script = NoScript
    /\ notices = <<>>
    /\ host = NoHost
    /\ api = NoApi
    /\ wav = NoWav
    /\ parsed = NoParse
    /\ chunkCount = 0
    /\ timers = <<>>
    /\ completed = <<>>
    /\ errors = <<>>
    /\ cancelled = FALSE
    /\ recv = <<>>
    /\ seen = {}
    /\ failure = "none"
    /\ lateAudio = FALSE
    /\ runLog = <<>>
    /\ nMsgs = 0

RemoveAt(q, i) == SubSeq(q, 1, i - 1) \o SubSeq(q, i + 1, Len(q))

HasOp(q, op) == \E i \in 1..Len(q) : q[i].op = op

HasCont(q, cb) == \E i \in 1..Len(q) : q[i].k.cb = cb

\* the failure of the session, once kind has occurred
Failure(kind) == IF failure = "none" THEN kind ELSE "several"

(* ----------------------- player: shared steps ------------------------- *)

\* addPCMChunk from "if (!this.isPlaying)" on: the player afterwards,
\* whether the device took the chunk, and the start time given to it
AddChunk(p, data, rate, now) ==
    LET p2 == Anchor(p, now)
    IN  IF DeviceAccepts(data)
        THEN [ok |-> TRUE, p |-> Schedule(p2, data, rate, now),
              at |-> p2.scheduledTime]
        ELSE [ok |-> FALSE, p |-> p2, at |-> p2.scheduledTime]

\* the source.start calls of the run after addPCMChunk: a first chunk
\* opens a new run
Started(log, p, r, data, rate) ==
    LET run == IF p.isPlaying THEN log ELSE <<>>
    IN  IF r.ok
        THEN Append(run, [when |-> r.at, dur |-> Duration(Len(data), rate)])
        ELSE run

\* a faulty variant: pausing drops the scheduled sources
PauseDiscards(r) ==
    IF ctxState = "closed"
    THEN UNCHANGED << ctxState, player >>
    ELSE /\ ctxState' = IF r.op = "suspend" THEN "suspended" ELSE "running"
         /\ player' = [player EXCEPT !.isPaused = (r.op = "suspend"),
                                     !.sources = <<>>]

\* pause() and resume() after their await: the context changes state and
\* the flag is set, unless the context was closed meanwhile (the request
\* rejects)
ControlDone(r) ==
    IF ctxState = "closed"
    THEN UNCHANGED << ctxState, player >>
    ELSE /\ ctxState' = IF r.op = "suspend" THEN "suspended" ELSE "running"
         /\ player' = [player EXCEPT !.isPaused = (r.op = "suspend")]

\* the device does its requests in order; a close() is not held up by the
\* resume() of a chunk, which a context blocked by the autoplay policy
\* leaves pending
Eligible(q, i) ==
    \/ i = 1
    \/ /\ q[i].op = "close"
       /\ \A j \in 1..(i - 1) : q[j].k.cb = "addPCMChunk"

\* source.onended: the sources that have played to their end by the
\* device time now leave the list
Ended(srcs, now) ==
    SelectSeq(srcs, LAMBDA x : x.begin + x.dur > now)

\* 0.1 s pass: the timers run on, the device clock only while the context
\* is running; sources that end fire onended.  The device does a
\* suspend(), a close() or the resume() of a paused player within that
\* time; only the resume() of a chunk can stay pending (a context blocked
\* by the autoplay policy).
TickTo(last) ==
    /\ currentTime < last
    /\ \A j \in 1..Len(ctxOps) : ctxOps[j].k.cb = "addPCMChunk"
    /\ timers' = [i \in 1..Len(timers) |-> Max(0, timers[i] - 1)]
    /\ currentTime' = IF ctxState = "running" THEN currentTime + 1
                      ELSE currentTime
    /\ player' = [player EXCEPT !.sources = Ended(@, currentTime')]
    /\ UNCHANGED << ctxState, ctxOps, wsState, sent, script, host, api,
                    parsed, wav, notices, chunkCount, completed, errors,
                    cancelled, recv, seen, failure, lateAudio, runLog, nMsgs >>

\* a faulty variant: pause() asks the device whenever the player plays
PauseAlways(p, q) ==
    IF ~p.isPlaying THEN q
    ELSE Append(q, [op |-> "suspend", k |-> [cb |-> "pause"]])

\* pause(), up to its await: the requests of the device afterwards
PauseRequest(p, q) ==
    IF ~p.isPlaying \/ p.isPaused THEN q
    ELSE Append(q, [op |-> "suspend", k |-> [cb |-> "pause"]])

\* resume(), up to its await: the requests of the device afterwards
ResumeRequest(p, q) ==
    IF ~p.isPlaying \/ ~p.isPaused THEN q
    ELSE Append(q, [op |-> "resume", k |-> [cb |-> "resume"]])

\* pause(), up to "await this.audioContext.suspend()"
Pause ==
    /\ ctxState # "closed"
    /\ ~HasCont(ctxOps, "pause")
    /\ ctxOps' = PauseRequest(player, ctxOps)
    /\ ctxOps' # ctxOps
    /\ UNCHANGED << ctxState, currentTime, player, wsState, sent, script,
                    host, api, parsed, wav, notices, chunkCount, timers,
                    completed, errors, cancelled, recv, seen, failure,
                    lateAudio, runLog, nMsgs >>

\* resume(), up to "await this.audioContext.resume()"
Resume ==
    /\ ctxState # "closed"
    /\ ~HasCont(ctxOps, "resume")
    /\ ctxOps' = ResumeRequest(player, ctxOps)
    /\ ctxOps' # ctxOps
    /\ UNCHANGED << ctxState, currentTime, player, wsState, sent, script,
                    host, api, parsed, wav, notices, chunkCount, timers,
                    completed, errors, cancelled, recv, seen, failure,
                    lateAudio, runLog, nMsgs >>

(* ------------------------- session: teardown -------------------------- *)

\* what follows "await audioPlayer.destroy()" in a handler:
\* ws.close(), then the callback
Finish(ws, k) ==
    /\ wsState' = CloseChannel(ws)
    /\ IF k.cb = "onComplete"
       THEN /\ completed' = Append(completed, [wav |-> k.wav, left |-> k.left])
            /\ errors' = errors
       ELSE /\ errors' = Append(errors, k.message)
            /\ completed' = completed

\* destroy(): stop(), then await audioContext.close(); k is the rest of
\* the handler.  p, q, st and ws are the player, the request queue, the
\* context state and the socket state the handler has produced so far.
\* Closing a context that is closed or closing is rejected on some
\* platforms (the handler then ends with that exception, also when its
\* catch block calls destroy() again) and accepted on others.
DestroyThen(p, q, st, ws, k) ==
    /\ player' = Stop(p)
    /\ runLog' = <<>>
    /\ IF st # "closed" /\ ~HasOp(q, "close")
       THEN /\ ctxOps' = Append(q, [op |-> "close", k |-> k])
            /\ wsState' = ws
            /\ UNCHANGED << completed, errors >>
       ELSE \/ /\ ctxOps' = q
               /\ wsState' = ws
               /\ UNCHANGED << completed, errors >>
            \/ /\ st = "closed"
               /\ ctxOps' = q
               /\ Finish(ws, k)
            \/ /\ st # "closed"
               /\ ctxOps' = Append(q, [op |-> "close", k |-> k])
               /\ wsState' = ws
               /\ UNCHANGED << completed, errors >>

\* the rest of an error path: ws.close(); onError(error)
OnErrorK(message) == [cb |-> "onError", message |-> message]

\* new Error(msg.message || "Streaming TTS failed")
ServerError(m) == IF m = "" THEN "Streaming TTS failed" ELSE m

\* "await audioPlayer.addPCMChunk(...)" from "if (!this.isPlaying)" on,
\* then the rest of the audio branch of onmessage: chunkCount++, or the
\* catch block when the device refuses the chunk
PlayChunk(p, q, st, data, rate) ==
    LET r == AddChunk(p, data, rate, currentTime)
    IN  IF r.ok
        THEN /\ player' = r.p
             /\ runLog' = Started(runLog, p, r, data, rate)
             /\ chunkCount' = chunkCount + 1
             /\ ctxOps' = q
             /\ UNCHANGED << wsState, completed, errors, failure >>
        ELSE /\ DestroyThen(r.p, q, st, wsState,
                            OnErrorK("NotSupportedError"))
             /\ failure' = Failure("device")
             /\ UNCHANGED chunkCount

(* ------------------------- WebSocket handlers ------------------------- *)

\* ws.onopen: ws.send(text), or ws.send(JSON.stringify(requestPayload))
\* in narrateScriptStreaming, whose handlers are the same otherwise
WsOpen ==
    /\ wsState = "connecting"
    /\ wsState' = "open"
    /\ sent' = TRUE
    /\ UNCHANGED << ctxState, currentTime, ctxOps, player, script, host, api,
                    parsed, wav, notices, chunkCount, timers, completed,
                    errors, cancelled, recv, seen, failure, lateAudio, runLog,
                    nMsgs >>

\* ws.onmessage, msg.type === "audio"
MsgAudio(c) ==
    /\ wsState = "open"
    /\ nMsgs < MaxMsgs
    /\ nMsgs' = nMsgs + 1
    /\ recv' = Append(recv, c)
    /\ lateAudio' = (lateAudio \/ "finalComplete" \in seen)
    /\ LET rate == EffectiveRate(c.rate)
           p1 == Retain(player, c.data, rate)
       IN  IF NeedsResume(ctxState, player)
           THEN /\ player' = p1
                /\ ctxOps' = Append(ctxOps,
                        [op |-> "resume",
                         k |-> [cb |-> "addPCMChunk", data |-> c.data,
                                rate |-> rate]])
                /\ UNCHANGED << wsState, chunkCount, completed, errors,
                                failure, runLog >>
           ELSE PlayChunk(p1, ctxOps, ctxState, c.data, rate)
    /\ UNCHANGED << ctxState, currentTime, sent, script, host, api, parsed,
                    wav, notices, timers, cancelled, seen >>

\* ws.onmessage with event.data that JSON.parse refuses, or an audio
\* message whose data atob / Float32Array refuses: the catch block
MsgUndecodable ==
    /\ wsState = "open"
    /\ nMsgs < MaxMsgs
    /\ nMsgs' = nMsgs + 1
    /\ failure' = Failure("decode")
    /\ DestroyThen(player, ctxOps, ctxState, wsState,
                   OnErrorK("SyntaxError"))
    /\ UNCHANGED << ctxState, currentTime, sent, script, host, api, parsed,
                    wav, notices, chunkCount, timers, cancelled, recv, seen,
                    lateAudio >>

\* ws.onmessage, msg.type === "finalComplete": start the wait
MsgFinalComplete ==
    /\ wsState = "open"
    /\ nMsgs < MaxMsgs
    /\ nMsgs' = nMsgs + 1
    /\ seen' = seen \cup {"finalComplete"}
    /\ timers' = Append(timers,
                        GetRemainingPlaybackTime(player, currentTime)
                            + SafetyMargin)
    /\ UNCHANGED << ctxState, currentTime, ctxOps, player, wsState, sent,
                    script, host, api, parsed, wav, notices, chunkCount,
                    completed, errors, cancelled, recv, failure, lateAudio,
                    runLog >>

\* ws.onmessage, msg.type === "complete": no branch of the handler
\* matches this type
MsgComplete ==
    /\ wsState = "open"
    /\ nMsgs < MaxMsgs
    /\ nMsgs' = nMsgs + 1
    /\ seen' = seen \cup {"complete"}
    /\ UNCHANGED << ctxState, currentTime, ctxOps, player, wsState, sent,
                    script, host, api, parsed, wav, notices, chunkCount,
                    timers, completed, errors, cancelled, recv, failure,
                    lateAudio, runLog >>

\* ws.onmessage, msg.type === "error"
MsgError(m) ==
    /\ wsState = "open"
    /\ nMsgs < MaxMsgs
    /\ nMsgs' = nMsgs + 1
    /\ failure' = Failure("server")
    /\ DestroyThen(player, ctxOps, ctxState, wsState,
                   OnErrorK(ServerError(m)))
    /\ UNCHANGED << ctxState, currentTime, sent, script, host, api, parsed,
                    wav, notices, chunkCount, timers, cancelled, recv, seen,
                    lateAudio >>

\* ws.onerror: the connection failed (also after close() on a socket that
\* was still connecting); the socket is closed when the event fires
WsError ==
    /\ wsState \in {"connecting", "open", "failing"}
    /\ failure' = Failure("transport")
    /\ DestroyThen(player, ctxOps, ctxState, "closed",
                   OnErrorK("WebSocket connection failed"))
    /\ UNCHANGED << ctxState, currentTime, sent, script, host, api, parsed,
                    wav, notices, chunkCount, timers, cancelled, recv, seen,
                    lateAudio, nMsgs >>

\* ws.onclose after the server closed the connection: only logs
WsClose ==
    /\ wsState = "open"
    /\ wsState' = "closed"
    /\ failure' = IF seen = {} THEN Failure("closed") ELSE failure
    /\ UNCHANGED << ctxState, currentTime, ctxOps, player, sent, script, host,
                    api, parsed, wav, notices, chunkCount, timers, completed,
                    errors, cancelled, recv, seen, lateAudio, runLog, nMsgs >>

\* the setTimeout callback of the finalComplete branch
TimerFire(i) ==
    /\ i \in 1..Len(timers)
    /\ timers[i] = 0
    /\ timers' = RemoveAt(timers, i)
    /\ LET combinedAudio == GetCollectedAudio(player.audioChunks)
           wavData == EncodeWAV(combinedAudio, player.sampleRate)
       IN  DestroyThen(player, ctxOps, ctxState, wsState,
                       [cb |-> "onComplete", wav |-> wavData,
                        left |-> GetRemainingPlaybackTime(player,
                                                          currentTime)])
    /\ UNCHANGED << ctxState, currentTime, sent, script, host, api, parsed,
                    wav, notices, chunkCount, cancelled, recv, seen, failure,
                    lateAudio, nMsgs >>

\* cancel(): audioPlayer.stop(); ws.close()
Cancel ==
    /\ player' = Stop(player)
    /\ runLog' = <<>>
    /\ wsState' = CloseChannel(wsState)
    /\ cancelled' = TRUE
    /\ UNCHANGED << ctxState, currentTime, ctxOps, sent, script, host, api,
                    parsed, wav, notices, chunkCount, timers, completed,
                    errors, recv, seen, failure, lateAudio, nMsgs >>

\* the device completes request i and the code awaiting it continues
DeviceStep(i) ==
    /\ i \in 1..Len(ctxOps)
    /\ Eligible(ctxOps, i)
    /\ LET r == ctxOps[i]
           q == RemoveAt(ctxOps, i)
       IN  CASE r.op = "close" ->
                  \* destroy() returns; the handler goes on
                  /\ ctxState' = "closed"
                  /\ ctxOps' = q
                  /\ Finish(wsState, r.k)
                  /\ UNCHANGED << player, chunkCount, failure, runLog >>
             [] r.k.cb \in {"pause", "resume"} ->
                  /\ ctxOps' = q
                  /\ ControlDone(r)
                  /\ UNCHANGED << wsState, chunkCount, completed, errors,
                                  failure, runLog >>
             [] r.k.cb = "addPCMChunk" ->
                  \* addPCMChunk goes on after its resume(); on a closed
                  \* context resume() rejects and onmessage catches it
                  \* (a consequence of the teardown when the session has
                  \* failed already)
                  IF ctxState = "closed"
                  THEN /\ DestroyThen(player, q, "closed", wsState,
                                      OnErrorK("InvalidStateError"))
                       /\ failure' = IF failure = "none" THEN "resume"
                                     ELSE failure
                       /\ UNCHANGED << ctxState, chunkCount >>
                  ELSE /\ ctxState' = "running"
                       /\ PlayChunk(player, q, "running", r.k.data, r.k.rate)
    /\ UNCHANGED << currentTime, sent, script, host, api, parsed, wav,
                    notices, timers, cancelled, recv, seen, lateAudio, nMsgs >>

Tick == TickTo(MaxClock)

Next ==
    \/ WsOpen
    \/ \E c \in Payloads : MsgAudio(c)
    \/ MsgUndecodable
    \/ MsgFinalComplete
    \/ MsgComplete
    \/ \E m \in Messages : MsgError(m)
    \/ WsError
    \/ WsClose
    \/ \E i \in 1..Len(timers) : TimerFire(i)
    \/ Cancel
    \/ Pause
    \/ Resume
    \/ \E i \in 1..Len(ctxOps) : DeviceStep(i)
    \/ Tick

Spec == Init /\ [][Next]_vars

(* ------------------------- a player on its own ------------------------ *)

\* addPCMChunk called on the player: what the player does, whoever calls
AddPCMChunk(c) ==
    /\ nMsgs < MaxChunks
    /\ nMsgs' = nMsgs + 1
    /\ LET rate == EffectiveRate(c.rate)
           p1 == Retain(player, c.data, rate)
           r == AddChunk(p1, c.data, rate, currentTime)
       IN  IF NeedsResume(ctxState, player)
           THEN /\ player' = p1
                /\ ctxOps' = Append(ctxOps,
                        [op |-> "resume",
                         k |-> [cb |-> "addPCMChunk", data |-> c.data,
                                rate |-> rate]])
                /\ UNCHANGED runLog
           ELSE /\ player' = r.p
                /\ runLog' = Started(runLog, p1, r, c.data, rate)
                /\ UNCHANGED ctxOps
    /\ UNCHANGED << ctxState, currentTime, wsState, sent, script, host, api,
                    parsed, wav, notices, chunkCount, timers, completed,
                    errors, cancelled, recv, seen, failure, lateAudio >>

\* stop()
StopPlayer ==
    /\ player' = Stop(player)
    /\ runLog' = <<>>
    /\ UNCHANGED << ctxState, currentTime, ctxOps, wsState, sent, script,
                    host, api, parsed, wav, notices, chunkCount, timers,
                    completed, errors, cancelled, recv, seen, failure,
                    lateAudio, nMsgs >>

\* reset()
ResetPlayer ==
    /\ player' = Reset(player)
    /\ runLog' = <<>>
    /\ UNCHANGED << ctxState, currentTime, ctxOps, wsState, sent, script,
                    host, api, parsed, wav, notices, chunkCount, timers,
                    completed, errors, cancelled, recv, seen, failure,
                    lateAudio, nMsgs >>

\* destroy(), up to "await this.audioContext.close()"
DestroyPlayer ==
    /\ ctxState # "closed"
    /\ ~HasOp(ctxOps, "close")
    /\ player' = Stop(player)
    /\ runLog' = <<>>
    /\ ctxOps' = Append(ctxOps, [op |-> "close", k |-> [cb |-> "destroy"]])
    /\ UNCHANGED << ctxState, currentTime, wsState, sent, script, host, api,
                    parsed, wav, notices, chunkCount, timers, completed,
                    errors, cancelled, recv, seen, failure, lateAudio, nMsgs >>

\* the device completes request i of a player on its own
PlayerDeviceStep(i) ==
    /\ i \in 1..Len(ctxOps)
    /\ Eligible(ctxOps, i)
    /\ ctxOps' = RemoveAt(ctxOps, i)
    /\ LET r == ctxOps[i]
       IN  CASE r.op = "close" ->
                  /\ ctxState' = "closed"
                  /\ UNCHANGED << player, runLog >>
             [] r.k.cb \in {"pause", "resume"} ->
                  /\ ControlDone(r)
                  /\ UNCHANGED runLog
             [] r.k.cb = "addPCMChunk" ->
                  \* on a closed context resume() rejects and addPCMChunk
                  \* throws to its caller
                  IF ctxState = "closed"
                  THEN UNCHANGED << ctxState, player, runLog >>
                  ELSE LET a == AddChunk(player, r.k.data, r.k.rate,
                                         currentTime)
                       IN  /\ ctxState' = "running"
                           /\ player' = a.p
                           /\ runLog' = Started(runLog, player, a, r.k.data,
                                                r.k.rate)
    /\ UNCHANGED << currentTime, wsState, sent, script, host, api, parsed,
                    wav, notices, chunkCount, timers, completed, errors,
                    cancelled, recv, seen, failure, lateAudio, nMsgs >>

PlayerTick == TickTo(MaxPlayClock)

PlayerNext ==
    \/ \E c \in Payloads : AddPCMChunk(c)
    \/ Pause
    \/ Resume
    \/ StopPlayer
    \/ ResetPlayer
    \/ DestroyPlayer
    \/ \E i \in 1..Len(ctxOps) : PlayerDeviceStep(i)
    \/ PlayerTick

PlayerSpec == Init /\ [][PlayerNext]_vars

(* --------------------------- narrateScript ---------------------------- *)

\* A line of a file is the sequence of its characters; a file is the
\* sequence of its lines (the text split at "\n").

\* String.prototype.trim, for the space as the only white space
RECURSIVE TrimStart(_)
TrimStart(t) ==
    IF t # <<>> /\ Head(t) = " " THEN TrimStart(Tail(t)) ELSE t

RECURSIVE TrimEnd(_)
TrimEnd(t) ==
    IF t # <<>> /\ t[Len(t)] = " " THEN TrimEnd(SubSeq(t, 1, Len(t) - 1))
    ELSE t

Trim(t) == TrimEnd(TrimStart(t))

\* the line "---"
Rule == <<"-", "-", "-">>

\* trimmed.match(/^\[([^\]]+)\]$/)
IsTag(t) ==
    /\ Len(t) >= 3
    /\ t[1] = "["
    /\ t[Len(t)] = "]"
    /\ \A i \in 2..(Len(t) - 1) : t[i] # "]"

\* content.match(/^---\n.*?\n---\n/s): the index of the line that closes
\* the frontmatter, or 0 when the content does not begin with one
FrontmatterEnd(content) ==
    LET closers == {j \in 3..(Len(content) - 1) : content[j] = Rule}
    IN  IF Len(content) >= 1 /\ content[1] = Rule /\ closers # {}
        THEN CHOOSE j \in closers : \A k \in closers : j <= k
        ELSE 0

\* the loop of parseScriptContent over the lines ls, with the current
\* character cur (<<>>: none yet, or an empty name) and n lines emitted
RECURSIVE ParseLines(_, _, _)
ParseLines(ls, cur, n) ==
    IF ls = <<>> THEN <<>>
    ELSE LET trimmed == Trim(Head(ls))
             rest == Tail(ls)
         IN  IF trimmed = <<>> THEN ParseLines(rest, cur, n)
             ELSE IF trimmed[1] = "#" THEN ParseLines(rest, cur, n)
             ELSE IF trimmed = Rule THEN ParseLines(rest, cur, n)
             ELSE IF trimmed[1] = "*" /\ trimmed[Len(trimmed)] = "*"
                  THEN ParseLines(rest, cur, n)
             ELSE IF IsTag(trimmed)
                  THEN ParseLines(rest,
                                  Trim(SubSeq(trimmed, 2, Len(trimmed) - 1)),
                                  n)
             ELSE IF cur # <<>>
                  THEN << [character |-> cur, text |-> trimmed,
                           lineNumber |-> n + 1] >>
                       \o ParseLines(rest, cur, n + 1)
             ELSE ParseLines(rest, cur, n)

\* parseScriptContent
ParseScriptContent(content) ==
    ParseLines(SubSeq(content, FrontmatterEnd(content) + 1, Len(content)),
               <<>>, 0)

\* a faulty variant: a character without a voice is an error
ValidationErrorsStrict(scriptLines, voiceMap, defaultVoice) ==
    IF Len(scriptLines) = 0
    THEN << "Script contains no dialogue lines" >>
    ELSE (IF \E i \in 1..Len(scriptLines) :
                 \/ scriptLines[i].character \notin DOMAIN voiceMap
                 \/ voiceMap[scriptLines[i].character] = <<>>
          THEN << "character(s) have no voice assignment" >>
          ELSE <<>>)
         \o (IF defaultVoice = <<>> \/ Trim(defaultVoice) = <<>>
             THEN << "No default voice configured in settings" >>
             ELSE <<>>)

\* validateScriptVoices: the errors it reports
ValidationErrors(scriptLines, voiceMap, defaultVoice) ==
    IF Len(scriptLines) = 0
    THEN << "Script contains no dialogue lines" >>
    ELSE IF defaultVoice = <<>> \/ Trim(defaultVoice) = <<>>
         THEN << "No default voice configured in settings" >>
         ELSE <<>>

\* validateScriptVoices: the characters of the script without a voice
UnmappedCharacters(scriptLines, voiceMap) ==
    {scriptLines[i].character : i \in 1..Len(scriptLines)}
        \ {c \in DOMAIN voiceMap : voiceMap[c] # <<>>}

\* validateScriptVoices: isValid
IsValid(scriptLines, voiceMap, defaultVoice) ==
    Len(ValidationErrors(scriptLines, voiceMap, defaultVoice)) = 0

\* the lines a script file is made of here
ScriptLines ==
    { <<>>, <<"#", "a">>, Rule, <<"*", "a", "*">>, <<"[", "A", "]">>,
      <<"[", " ", "]">>, <<" ", "a">> }

\* a frontmatter block
Frontmatter == << Rule, <<"A", " ", "V">>, Rule >>

\* script bodies of up to MaxLines lines
Bodies == UNION {[1..n -> ScriptLines] : n \in 0..MaxLines}

\* the files narrateScript is called on, with the voice of the settings
ScriptFiles ==
    [isScript : BOOLEAN,
     content : Bodies \cup {Frontmatter \o b : b \in Bodies},
     voices : {<<>>, [c \in {<<"A">>} |-> <<"v">>]},
     defaultVoice : {<<>>, <<" ">>, <<"v">>}]

\* before narrateScript is called: no player and no socket exist
ScriptInit ==
    /\ script \in ScriptFiles
    /\ notices = <<>>
    /\ host = NoHost
    /\ api = NoApi
    /\ wav = NoWav
    /\ parsed = NoParse
    /\ ctxState = "none"
    /\ wsState = "none"
    /\ currentTime = 0
    /\ ctxOps = <<>>
    /\ player = NewPlayer
    /\ sent = FALSE
    /\ chunkCount = 0
    /\ timers = <<>>
    /\ completed = <<>>
    /\ errors = <<>>
    /\ cancelled = FALSE
    /\ recv = <<>>
    /\ seen = {}
    /\ failure = "none"
    /\ lateAudio = FALSE
    /\ runLog = <<>>
    /\ nMsgs = 0

\* narrateScript, up to the return of narrateScriptStreaming: a file that
\* is no script gets a notice; for a script the player and the socket are
\* created
NarrateScript ==
    /\ wsState = "none"
    /\ notices = <<>>
    /\ IF ~script.isScript
       THEN /\ notices' = << "This file is not a narrator script" >>
            /\ UNCHANGED << ctxState, wsState >>
       ELSE /\ notices' = << "Streaming script narration" >>
            /\ ctxState' \in {"running", "suspended"}
            /\ wsState' = "connecting"
    /\ UNCHANGED << currentTime, ctxOps, player, sent, script, host, api,
                    parsed, wav, chunkCount, timers, completed, errors,
                    cancelled, recv, seen, failure, lateAudio, runLog, nMsgs >>

ScriptNext ==
    \/ NarrateScript
    \/ WsOpen

ScriptSpec == ScriptInit /\ [][ScriptNext]_vars

(* ------------------------ scriptParser.ts ----------------------------- *)

\* validateScriptVoices: the warnings it reports, two entries when a
\* character has no voice
Warnings(scriptLines, voiceMap, defaultVoice) ==
    IF Len(scriptLines) = 0 THEN <<>>
    ELSE IF UnmappedCharacters(scriptLines, voiceMap) # {}
         THEN << "character(s) have no voice assignment",
                 "These characters will use the default voice" >>
         ELSE <<>>

\* validateScriptVoices
ValidateScriptVoices(scriptLines, voiceMap, defaultVoice) ==
    [isValid |-> IsValid(scriptLines, voiceMap, defaultVoice),
     errors |-> ValidationErrors(scriptLines, voiceMap, defaultVoice),
     warnings |-> Warnings(scriptLines, voiceMap, defaultVoice),
     unmappedCharacters |-> UnmappedCharacters(scriptLines, voiceMap)]

\* A key of the frontmatter is the sequence of its words, which single
\* spaces separate: << "A", "VOICE" >> is the key "A VOICE".

\* key.endsWith(" VOICE")
EndsWithVoice(key) == Len(key) >= 2 /\ key[Len(key)] = "VOICE"

\* key.replace(" VOICE", ""): the first " VOICE" of the key is taken out
ReplaceVoice(key) ==
    LET at == {j \in 2..Len(key) : key[j] = "VOICE"}
    IN  IF at = {} THEN key
        ELSE LET i == CHOOSE j \in at : \A k \in at : j <= k
             IN  SubSeq(key, 1, i - 1) \o SubSeq(key, i + 1, Len(key))

\* the loop of extractCharacterVoices over the entries of the frontmatter
RECURSIVE ExtractEntries(_, _)
ExtractEntries(entries, voices) ==
    IF entries = <<>> THEN voices
    ELSE LET e == Head(entries)
             name == ReplaceVoice(e.key)
         IN  IF /\ EndsWithVoice(e.key)
                /\ e.isString
                /\ e.value # <<>>
                /\ Trim(e.value) # <<>>
             THEN ExtractEntries(Tail(entries),
                     [c \in DOMAIN voices \cup {name} |->
                         IF c = name THEN Trim(e.value) ELSE voices[c]])
             ELSE ExtractEntries(Tail(entries), voices)

\* extractCharacterVoices
ExtractCharacterVoices(meta) == ExtractEntries(meta, <<>>)

\* keys of a frontmatter
MetaKeys ==
    { <<"A", "VOICE">>, <<"A">>, <<"A", "B", "VOICE">>,
      <<"A", "VOICE", "B", "VOICE">> }

\* values of a frontmatter: strings, and one value that is no string
MetaValues ==
    { [isString |-> TRUE, value |-> <<>>],
      [isString |-> TRUE, value |-> <<" ">>],
      [isString |-> TRUE, value |-> <<" ", "v">>],
      [isString |-> FALSE, value |-> <<"1">>] }

\* the frontmatter of a file: up to MaxKeys entries with different keys
Metas ==
    {m \in UNION {[1..n -> [key : MetaKeys, isString : BOOLEAN,
                            value : {<<>>, <<" ">>, <<" ", "v">>, <<"1">>}]] :
                     n \in 0..MaxKeys} :
        /\ \A i \in 1..Len(m) :
              [isString |-> m[i].isString, value |-> m[i].value]
                  \in MetaValues
        /\ \A i, j \in 1..Len(m) : i # j => m[i].key # m[j].key}

\* no session, no plugin state and no call of the encoder
NoSession ==
    /\ host = NoHost
    /\ api = NoApi
    /\ wav = NoWav
    /\ notices = <<>>
    /\ ctxState = "none"
    /\ wsState = "none"
    /\ currentTime = 0
    /\ ctxOps = <<>>
    /\ player = NewPlayer
    /\ sent = FALSE
    /\ chunkCount = 0
    /\ timers = <<>>
    /\ completed = <<>>
    /\ errors = <<>>
    /\ cancelled = FALSE
    /\ recv = <<>>
    /\ seen = {}
    /\ failure = "none"
    /\ lateAudio = FALSE
    /\ runLog = <<>>
    /\ nMsgs = 0

\* extractCharacterVoices is called on a frontmatter
VoiceInit ==
    /\ parsed \in {[NoParse EXCEPT !.meta = m] : m \in Metas}
    /\ script = NoScript
    /\ NoSession

\* extractCharacterVoices(file, app)
ExtractVoices ==
    /\ parsed.stage = "none"
    /\ parsed' = [parsed EXCEPT !.stage = "extracted",
                                !.voices = ExtractCharacterVoices(parsed.meta)]
    /\ UNCHANGED << ctxState, currentTime, ctxOps, player, wsState, sent,
                    script, host, api, wav, notices, chunkCount, timers,
                    completed, errors, cancelled, recv, seen, failure,
                    lateAudio, runLog, nMsgs >>

VoiceNext == ExtractVoices

VoiceSpec == VoiceInit /\ [][VoiceNext]_vars

\* parseScriptContent is called on a file, validateScriptVoices on its
\* result
ParseInit ==
    /\ script \in ScriptFiles
    /\ parsed = NoParse
    /\ NoSession

\* parseScriptContent(content)
ParseScript ==
    /\ parsed.stage = "none"
    /\ parsed' = [parsed EXCEPT !.stage = "parsed",
                                !.lines = ParseScriptContent(script.content)]
    /\ UNCHANGED << ctxState, currentTime, ctxOps, player, wsState, sent,
                    script, host, api, wav, notices, chunkCount, timers,
                    completed, errors, cancelled, recv, seen, failure,
                    lateAudio, runLog, nMsgs >>

\* validateScriptVoices(scriptLines, voiceMap, defaultVoice)
ValidateScript ==
    /\ parsed.stage = "parsed"
    /\ LET r == ValidateScriptVoices(parsed.lines, script.voices,
                                     script.defaultVoice)
       IN  parsed' = [parsed EXCEPT !.stage = "validated",
                          !.isValid = r.isValid,
                          !.errors = r.errors,
                          !.warnings = r.warnings,
                          !.unmappedCharacters = r.unmappedCharacters]
    /\ UNCHANGED << ctxState, currentTime, ctxOps, player, wsState, sent,
                    script, host, api, wav, notices, chunkCount, timers,
                    completed, errors, cancelled, recv, seen, failure,
                    lateAudio, runLog, nMsgs >>

ParseNext ==
    \/ ParseScript
    \/ ValidateScript

ParseSpec == ParseInit /\ [][ParseNext]_vars

\* dialogue lines given to validateScriptVoices: the characters A and B
\* speak, the lines are numbered from 1
Dialogues ==
    {[i \in 1..Len(f) |-> [character |-> f[i], text |-> <<"a">>,
                           lineNumber |-> i]] :
        f \in UNION {[1..k -> {<<"A">>, <<"B">>}] : k \in 0..MaxDialogue}}

\* voice maps given to validateScriptVoices: a character has no entry, an
\* empty voice, or a voice
VoiceMaps ==
    UNION {[d -> {<<>>, <<"v">>}] : d \in SUBSET {<<"A">>, <<"B">>}}

\* validateScriptVoices is called on dialogue lines
ValidateInit ==
    /\ parsed \in {[NoParse EXCEPT !.stage = "parsed", !.lines = d] :
                      d \in Dialogues}
    /\ script \in [isScript : {TRUE}, content : {<<>>}, voices : VoiceMaps,
                   defaultVoice : {<<>>, <<" ">>, <<"v">>}]
    /\ NoSession

ValidateNext == ValidateScript

ValidateSpec == ValidateInit /\ [][ValidateNext]_vars

(* ----------------------- encodeWAV on its own ------------------------- *)

\* sample values given to the encoder, in thousandths: inside the range,
\* on its ends and beyond them
SampleValues == {-2000, -1000, 0, 500, 1000, 1500}

\* sample rates given to the encoder, in Hz: the usual ones, zero and a
\* negative one
SampleRates == {8000, 22050, 44100, 48000, 0, -8000}

SampleSeqs == UNION {[1..n -> SampleValues] : n \in 0..MaxSamples}

EncodeInit ==
    /\ wav \in {[samples |-> x, sampleRate |-> r, done |-> FALSE,
                 threw |-> FALSE, bytes |-> <<>>] :
                    x \in SampleSeqs, r \in SampleRates}
    /\ host = NoHost
    /\ api = NoApi
    /\ parsed = NoParse
    /\ ctxState = "none"
    /\ wsState = "none"
    /\ currentTime = 0
    /\ ctxOps = <<>>
    /\ player = NewPlayer
    /\ sent = FALSE
    /\ script = NoScript
    /\ notices = <<>>
    /\ chunkCount = 0
    /\ timers = <<>>
    /\ completed = <<>>
    /\ errors = <<>>
    /\ cancelled = FALSE
    /\ recv = <<>>
    /\ seen = {}
    /\ failure = "none"
    /\ lateAudio = FALSE
    /\ runLog = <<>>
    /\ nMsgs = 0

\* encodeWAV(samples, sampleRate): no statement of the function throws,
\* and a buffer is returned whatever the rate
Encode ==
    /\ ~wav.done
    /\ wav' = [wav EXCEPT !.done = TRUE, !.threw = FALSE,
                          !.bytes = EncodeWAV(wav.samples, wav.sampleRate)]
    /\ UNCHANGED << ctxState, currentTime, ctxOps, player, wsState, sent,
                    script, host, api, parsed, notices, chunkCount, timers,
                    completed, errors, cancelled, recv, seen, failure,
                    lateAudio, runLog, nMsgs >>

EncodeNext == Encode

EncodeSpec == EncodeInit /\ [][EncodeNext]_vars

(* ------------------------- NarratorPlugin ----------------------------- *)

\* The plugin and its status bar.  A session of the plugin is kept by the
\* state of its socket, whether its player has been stopped or destroyed,
\* the audio messages it has handled, whether its player has been attached
\* to the status bar, and whether it has called onComplete or onError.

\* the variables of the single session, of the encoder and of the script
\* parser, which the plugin leaves alone
single == << ctxState, currentTime, ctxOps, player, wsState, sent, script,
             wav, parsed, notices, chunkCount, timers, completed, errors,
             cancelled, recv, seen, failure, lateAudio, runLog, nMsgs,
             api >>

\* new StreamingAudioPlayer(), new WebSocket(wsEndpoint)
NewSession ==
    [ws |-> "connecting", stopped |-> FALSE, chunks |-> 0,
     attached |-> FALSE, reported |-> FALSE]

\* a faulty variant: events of the socket are handled although the caller
\* of the start has not run on
AlwaysRunnable(h) == TRUE

\* "await narrateTextStreaming(...)": the function has returned, so the
\* caller runs on in a microtask; the events of a socket are tasks and are
\* handled only when no microtask is left
Runnable(h) == h.returned = 0

\* detachPlayer
DetachPlayer(h) == [h EXCEPT !.currentPlayer = 0, !.isPlaying = FALSE]

\* attachPlayer: detach what was attached, keep the player and its cancel
AttachPlayer(h, i) ==
    [DetachPlayer(h) EXCEPT !.currentPlayer = i,
                            !.sessions[i].attached = TRUE,
                            !.isPlaying = TRUE]

HostInit ==
    /\ host = NoHost
    /\ api = NoApi
    /\ wav = NoWav
    /\ parsed = NoParse
    /\ ctxState = "none"
    /\ wsState = "none"
    /\ currentTime = 0
    /\ ctxOps = <<>>
    /\ player = NewPlayer
    /\ sent = FALSE
    /\ script = NoScript
    /\ notices = <<>>
    /\ chunkCount = 0
    /\ timers = <<>>
    /\ completed = <<>>
    /\ errors = <<>>
    /\ cancelled = FALSE
    /\ recv = <<>>
    /\ seen = {}
    /\ failure = "none"
    /\ lateAudio = FALSE
    /\ runLog = <<>>
    /\ nMsgs = 0

\* narrateFile, narrateText or narrateScript, up to the return of
\* narrate*Streaming: a player and a socket are created, whatever the
\* sessions before do
StartNarration ==
    /\ host.returned = 0
    /\ Len(host.sessions) < MaxSessions
    /\ host' = [host EXCEPT !.sessions = Append(@, NewSession),
                            !.returned = Len(host.sessions) + 1]
    /\ UNCHANGED single

\* narrateFile after the await: attachPlayer(response.player,
\* response.cancel)
AttachReturned ==
    /\ host.returned # 0
    /\ host' = [AttachPlayer(host, host.returned) EXCEPT !.returned = 0]
    /\ UNCHANGED single

\* ws.onopen of session i
SessionOpen(i) ==
    /\ Runnable(host)
    /\ host.sessions[i].ws = "connecting"
    /\ host' = [host EXCEPT !.sessions[i].ws = "open"]
    /\ UNCHANGED single

\* ws.onmessage of session i, an audio message
SessionAudio(i) ==
    /\ Runnable(host)
    /\ host.sessions[i].ws = "open"
    /\ host.sessions[i].chunks < MaxHostChunks
    /\ host' = [host EXCEPT !.sessions[i].chunks = @ + 1]
    /\ UNCHANGED single

\* session i ends by itself, by its finalizer or by an error: destroy(),
\* ws.close(), then onComplete or onError, which detach the player of the
\* status bar
SessionEnds(i) ==
    /\ Runnable(host)
    /\ host.sessions[i].ws # "closed"
    /\ host' = [DetachPlayer(host) EXCEPT !.sessions[i].ws = "closed",
                                          !.sessions[i].stopped = TRUE,
                                          !.sessions[i].reported = TRUE]
    /\ UNCHANGED single

\* the stop button: currentPlayer.stop(), cancelStreaming(), detachPlayer()
StatusBarStop ==
    /\ Runnable(host)
    /\ host.currentPlayer # 0
    /\ host' = [DetachPlayer(host) EXCEPT
                    !.sessions[host.currentPlayer].ws = "closed",
                    !.sessions[host.currentPlayer].stopped = TRUE]
    /\ UNCHANGED single

HostNext ==
    \/ StartNarration
    \/ AttachReturned
    \/ \E i \in 1..Len(host.sessions) : SessionOpen(i)
    \/ \E i \in 1..Len(host.sessions) : SessionAudio(i)
    \/ \E i \in 1..Len(host.sessions) : SessionEnds(i)
    \/ StatusBarStop

HostSpec == HostInit /\ [][HostNext]_vars

(* ------------------- scriptParser.ts: clean content ------------------- *)

\* "### Script Generation", the heading of the generation instructions
GenerationHeader == <<"#", "#", "#", "G">>

\* lines.join("\n"): the text of the lines, "\n" between them
RECURSIVE JoinLines(_)
JoinLines(ls) ==
    IF ls = <<>> THEN <<>>
    ELSE IF Len(ls) = 1 THEN ls[1]
    ELSE ls[1] \o <<"\n">> \o JoinLines(Tail(ls))

\* text.split("\n")
RECURSIVE SplitLines(_, _)
SplitLines(text, line) ==
    IF text = <<>> THEN << line >>
    ELSE IF Head(text) = "\n" THEN << line >> \o SplitLines(Tail(text), <<>>)
    ELSE SplitLines(Tail(text), Append(line, Head(text)))

\* t occurs in text at position p
At(text, p, t) ==
    /\ p >= 1
    /\ p + Len(t) - 1 <= Len(text)
    /\ SubSeq(text, p, p + Len(t) - 1) = t

\* \n*: the position after the newlines that begin at position e
RECURSIVE SkipNewlines(_, _)
SkipNewlines(text, e) ==
    IF e <= Len(text) /\ text[e] = "\n" THEN SkipNewlines(text, e + 1)
    ELSE e

\* text.replace(/^---\n[\s\S]*?\n---\n*/m, ''): with the flag m the "^"
\* is the beginning of any line, and the first match is removed
RemoveFrontmatter(text) ==
    LET closes(p) == {q \in (p + 4)..Len(text) : At(text, q, <<"\n">> \o Rule)}
        opens == {p \in 1..Len(text) :
                     /\ p = 1 \/ text[p - 1] = "\n"
                     /\ At(text, p, Rule \o <<"\n">>)
                     /\ closes(p) # {}}
    IN  IF opens = {} THEN text
        ELSE LET p == CHOOSE x \in opens : \A y \in opens : x <= y
                 q == CHOOSE x \in closes(p) : \A y \in closes(p) : x <= y
                 e == SkipNewlines(text, q + 4)
             IN  SubSeq(text, 1, p - 1) \o SubSeq(text, e, Len(text))

\* text.replace(/### Script Generation[\s\S]*?---\n*/m, '')
RemoveInstructions(text) ==
    LET closes(p) == {q \in (p + Len(GenerationHeader))..Len(text) :
                         At(text, q, Rule)}
        opens == {p \in 1..Len(text) :
                     At(text, p, GenerationHeader) /\ closes(p) # {}}
    IN  IF opens = {} THEN text
        ELSE LET p == CHOOSE x \in opens : \A y \in opens : x <= y
                 q == CHOOSE x \in closes(p) : \A y \in closes(p) : x <= y
                 e == SkipNewlines(text, q + 3)
             IN  SubSeq(text, 1, p - 1) \o SubSeq(text, e, Len(text))

\* text.trim(): spaces and newlines are removed at both ends
RECURSIVE TrimText(_)
TrimText(text) ==
    IF text # <<>> /\ Head(text) \in {" ", "\n"} THEN TrimText(Tail(text))
    ELSE IF text # <<>> /\ text[Len(text)] \in {" ", "\n"}
         THEN TrimText(SubSeq(text, 1, Len(text) - 1))
    ELSE text

\* getCleanScriptContent(content), on the lines of the content and giving
\* the lines of the cleaned content
GetCleanScriptContent(content) ==
    SplitLines(TrimText(RemoveInstructions(RemoveFrontmatter(
                   JoinLines(content)))), <<>>)

\* script bodies of up to MaxCleanLines lines, with or without the
\* heading of the generation instructions
CleanBodies ==
    UNION {[1..n -> ScriptLines \cup {GenerationHeader}] :
              n \in 0..MaxCleanLines}

\* getCleanScriptContent is called on the content of a file
CleanInit ==
    /\ script \in {[NoScript EXCEPT !.content = b] : b \in CleanBodies}
    /\ parsed = NoParse
    /\ NoSession

\* getCleanScriptContent(content)
CleanScript ==
    /\ parsed.stage = "none"
    /\ parsed' = [parsed EXCEPT !.stage = "cleaned",
                     !.cleaned = GetCleanScriptContent(script.content)]
    /\ UNCHANGED << ctxState, currentTime, ctxOps, player, wsState, sent,
                    script, host, api, wav, notices, chunkCount, timers,
                    completed, errors, cancelled, recv, seen, failure,
                    lateAudio, runLog, nMsgs >>

CleanNext == CleanScript

CleanSpec == CleanInit /\ [][CleanNext]_vars

(* -------------------- scriptParser.ts: isScriptFile ------------------- *)

\* file.basename.endsWith("-script"): "-script" is one piece of a name
EndsWithScript(basename) ==
    Len(basename) >= 1 /\ basename[Len(basename)] = "-script"

\* a faulty variant: the extension of the file is not looked at
IsScriptFileAnyExtension(file, meta) ==
    \/ file.frontmatter /\ file.narrator_script = "true"
    \/ EndsWithScript(file.basename)
    \/ file.frontmatter /\ \E i \in 1..Len(meta) : EndsWithVoice(meta[i].key)

\* isScriptFile(file, app): meta is the frontmatter of the metadata cache
\* without the key narrator_script, used when the file has a frontmatter
IsScriptFile(file, meta) ==
    IF file.extension # "md" THEN FALSE
    ELSE \/ file.frontmatter /\ file.narrator_script = "true"
         \/ EndsWithScript(file.basename)
         \/ /\ file.frontmatter
            /\ \E i \in 1..Len(meta) : EndsWithVoice(meta[i].key)

\* the files isScriptFile is asked about: markdown or not, named as a
\* script or not, with a frontmatter or without, and in the frontmatter
\* narrator_script absent, true, or false
Files ==
    {f \in [extension : {"md", "txt"},
            basename : {<<"a">>, <<"a", "-script">>, <<"-script", "a">>},
            frontmatter : BOOLEAN,
            narrator_script : {"absent", "true", "false"}] :
        ~f.frontmatter => f.narrator_script = "absent"}

\* isScriptFile is called on a file
FileInit ==
    /\ parsed \in {[NoParse EXCEPT !.file = f, !.meta = m] :
                      f \in Files,
                      m \in {x \in Metas : Len(x) <= 1}}
    /\ \/ parsed.file.frontmatter
       \/ parsed.meta = <<>>
    /\ script = NoScript
    /\ NoSession

\* isScriptFile(file, app)
CheckScriptFile ==
    /\ parsed.stage = "none"
    /\ parsed' = [parsed EXCEPT !.stage = "checked",
                     !.isScript = IsScriptFile(parsed.file, parsed.meta)]
    /\ UNCHANGED << ctxState, currentTime, ctxOps, player, wsState, sent,
                    script, host, api, wav, notices, chunkCount, timers,
                    completed, errors, cancelled, recv, seen, failure,
                    lateAudio, runLog, nMsgs >>

FileNext == CheckScriptFile

FileSpec == FileInit /\ [][FileNext]_vars

(* ------------------- AudioPlayerStatusBar: the button ------------------ *)

\* attachPlayer has been called with the player of a new session: the
\* button shows "Pause", nothing has been received
BarInit ==
    /\ ctxState \in {"running", "suspended"}
    /\ host = AttachPlayer([NoHost EXCEPT !.sessions = << NewSession >>], 1)
    /\ script = NoScript
    /\ parsed = NoParse
    /\ wav = NoWav
    /\ api = NoApi
    /\ notices = <<>>
    /\ wsState = "connecting"
    /\ currentTime = 0
    /\ ctxOps = <<>>
    /\ player = NewPlayer
    /\ sent = FALSE
    /\ chunkCount = 0
    /\ timers = <<>>
    /\ completed = <<>>
    /\ errors = <<>>
    /\ cancelled = FALSE
    /\ recv = <<>>
    /\ seen = {}
    /\ failure = "none"
    /\ lateAudio = FALSE
    /\ runLog = <<>>
    /\ nMsgs = 0

\* togglePlayPause, up to its await: pause() when the button shows
\* "Pause", resume() otherwise.  When the player returns without asking
\* the device, the rest of togglePlayPause runs at once and turns the
\* button over.  A click waits for the click before it to be done with.
TogglePlayPause ==
    /\ host.currentPlayer # 0
    /\ ~HasCont(ctxOps, "pause")
    /\ ~HasCont(ctxOps, "resume")
    /\ ctxOps' = IF host.isPlaying THEN PauseRequest(player, ctxOps)
                 ELSE ResumeRequest(player, ctxOps)
    /\ host' = IF ctxOps' = ctxOps
               THEN [host EXCEPT !.isPlaying = ~host.isPlaying]
               ELSE host
    /\ UNCHANGED << ctxState, currentTime, player, wsState, sent, script,
                    api, parsed, wav, notices, chunkCount, timers,
                    completed, errors, cancelled, recv, seen, failure,
                    lateAudio, runLog, nMsgs >>

\* the device completes request i: the rest of pause() or resume() runs,
\* then the rest of togglePlayPause, which sets the flag of the button;
\* or the rest of addPCMChunk runs
BarDeviceStep(i) ==
    /\ i \in 1..Len(ctxOps)
    /\ Eligible(ctxOps, i)
    /\ ctxOps' = RemoveAt(ctxOps, i)
    /\ LET r == ctxOps[i]
       IN  IF r.k.cb \in {"pause", "resume"}
           THEN /\ ControlDone(r)
                /\ host' = [host EXCEPT !.isPlaying = (r.k.cb = "resume")]
                /\ UNCHANGED runLog
           ELSE LET a == AddChunk(player, r.k.data, r.k.rate, currentTime)
                IN  /\ ctxState' = "running"
                    /\ player' = a.p
                    /\ runLog' = Started(runLog, player, a, r.k.data,
                                         r.k.rate)
                    /\ UNCHANGED host
    /\ UNCHANGED << currentTime, wsState, sent, script, api, parsed, wav,
                    notices, chunkCount, timers, completed, errors,
                    cancelled, recv, seen, failure, lateAudio, nMsgs >>

BarNext ==
    \/ \E c \in Payloads : AddPCMChunk(c)
    \/ TogglePlayPause
    \/ \E i \in 1..Len(ctxOps) : BarDeviceStep(i)
    \/ PlayerTick

BarSpec == BarInit /\ [][BarNext]_vars

(* -------------------------- LoadingIndicator -------------------------- *)

\* show()
Show(h) ==
    [h EXCEPT !.activeRequests = @ + 1, !.spinner = "inline-block"]

\* hide()
Hide(h) ==
    LET n == Max(0, h.activeRequests - 1)
    IN  [h EXCEPT !.activeRequests = n,
                  !.spinner = IF n = 0 THEN "none" ELSE @]

\* onLoadingStart of the API client: a request begins
RequestStart ==
    /\ host.requests < MaxRequests
    /\ host' = [Show(host) EXCEPT !.requests = @ + 1]
    /\ UNCHANGED single

\* onLoadingEnd of the API client: a request is over
RequestEnd ==
    /\ host.requests > 0
    /\ host' = [Hide(host) EXCEPT !.requests = @ - 1]
    /\ UNCHANGED single

\* previewVoice, up to "await apiClient.narration.narrateText(...)"
PreviewVoice ==
    /\ Len(host.previews) < MaxPreviews
    /\ host' = [Show(host) EXCEPT !.previews = Append(@, "request")]
    /\ UNCHANGED single

\* narrateText has returned for preview i: hide(), then either the
\* response holds no audio data and the catch block runs (hide() again),
\* or the audio element is made and previewVoice awaits its play()
PreviewResponse(i, audio) ==
    /\ host.previews[i] = "request"
    /\ host' = IF audio
               THEN [Hide(host) EXCEPT !.previews[i] = "play"]
               ELSE [Hide(Hide(host)) EXCEPT !.previews[i] = "done"]
    /\ UNCHANGED single

\* narrateText has thrown for preview i: the catch block runs
PreviewFailed(i) ==
    /\ host.previews[i] = "request"
    /\ host' = [Hide(host) EXCEPT !.previews[i] = "done"]
    /\ UNCHANGED single

\* currentAudio.play() of preview i is settled: fulfilled, or rejected
\* and the catch block runs
PreviewPlay(i, ok) ==
    /\ host.previews[i] = "play"
    /\ host' = IF ok THEN [host EXCEPT !.previews[i] = "done"]
               ELSE [Hide(host) EXCEPT !.previews[i] = "done"]
    /\ UNCHANGED single

LoadingNext ==
    \/ RequestStart
    \/ RequestEnd
    \/ PreviewVoice
    \/ \E i \in 1..Len(host.previews), audio \in BOOLEAN :
           PreviewResponse(i, audio)
    \/ \E i \in 1..Len(host.previews) : PreviewFailed(i)
    \/ \E i \in 1..Len(host.previews), ok \in BOOLEAN : PreviewPlay(i, ok)

LoadingSpec == HostInit /\ [][LoadingNext]_vars

(* ----------------------------- apiRequest ----------------------------- *)

\* statuses of the responses of the server
Statuses == {200, 400, 401, 403, 404, 429, 500}

\* what fetch gives: a rejection (status 0: no response), or a response
\* whose body is no JSON ("text"), JSON without the member error
\* ("json"), or JSON with the member error ("error")
Responses ==
    {[status |-> 0, body |-> "none"]}
        \cup [status : Statuses, body : {"text", "json", "error"}]

\* the configuration: initApiClient not called ("null"), called with an
\* empty apiKey ("nokey"), or with an API key ("key")
Configs == {"null", "nokey", "key"}

\* parseErrorResponse(data, statusCode): the class of the error and its
\* statusCode
ParseErrorResponse(body, statusCode) ==
    IF body = "error"
    THEN CASE statusCode \in {401, 403} ->
                [outcome |-> "AuthenticationError", status |-> 401]
           [] statusCode = 400 ->
                [outcome |-> "ValidationError", status |-> 400]
           [] statusCode = 429 ->
                [outcome |-> "RateLimitError", status |-> 429]
           [] statusCode = 404 ->
                [outcome |-> "NotFoundError", status |-> 404]
           [] OTHER ->
                [outcome |-> "NarratorApiError", status |-> statusCode]
    ELSE [outcome |-> "NarratorApiError", status |-> statusCode]

\* apiRequest is called with a configuration, and the server will give a
\* response if it is asked
ApiInit ==
    /\ api \in {[NoApi EXCEPT !.config = c, !.response = r] :
                   c \in Configs, r \in Responses}
    /\ host = NoHost
    /\ script = NoScript
    /\ parsed = NoParse
    /\ wav = NoWav
    /\ notices = <<>>
    /\ ctxState = "none"
    /\ wsState = "none"
    /\ currentTime = 0
    /\ ctxOps = <<>>
    /\ player = NewPlayer
    /\ sent = FALSE
    /\ chunkCount = 0
    /\ timers = <<>>
    /\ completed = <<>>
    /\ errors = <<>>
    /\ cancelled = FALSE
    /\ recv = <<>>
    /\ seen = {}
    /\ failure = "none"
    /\ lateAudio = FALSE
    /\ runLog = <<>>
    /\ nMsgs = 0

\* apiRequest(endpoint, options): what it returns or throws; status 0 is
\* a statusCode that is undefined
ApiRequest ==
    /\ api.outcome = "none"
    /\ LET r == api.response
           e == IF r.body = "text"
                THEN [outcome |-> "NarratorApiError", status |-> r.status]
                ELSE ParseErrorResponse(r.body, r.status)
       IN  api' =
             IF api.config # "key"
             THEN [api EXCEPT !.outcome = "AuthenticationError",
                              !.status = 401]
             ELSE IF r.status = 0
             THEN [api EXCEPT !.fetched = TRUE,
                              !.outcome = "NarratorApiError", !.status = 0]
             ELSE IF r.status = 200
             THEN [api EXCEPT !.fetched = TRUE, !.outcome = "returned"]
             ELSE [api EXCEPT !.fetched = TRUE, !.outcome = e.outcome,
                              !.status = e.status]
    /\ UNCHANGED << ctxState, currentTime, ctxOps, player, wsState, sent,
                    script, host, parsed, wav, notices, chunkCount, timers,
                    completed, errors, cancelled, recv, seen, failure,
                    lateAudio, runLog, nMsgs >>

ApiNext == ApiRequest

ApiSpec == ApiInit /\ [][ApiNext]_vars

(* ------------------------------ claims -------------------------------- *)

\* nothing is pending in the session: no timer, no device request, and the
\* socket is closed
Quiescent == timers = <<>> /\ ctxOps = <<>> /\ wsState = "closed"

Callbacks == Len(completed) + Len(errors)

\* the session has met a failure
failed == failure # "none"

RECURSIVE SumDur(_, _)
SumDur(log, n) == IF n = 0 THEN 0 ELSE SumDur(log, n - 1) + log[n].dur

\* the samples of the received payloads, first to last
RECURSIVE ConcatInOrder(_)
ConcatInOrder(cs) ==
    IF cs = <<>> THEN <<>>
    ELSE ConcatInOrder(SubSeq(cs, 1, Len(cs) - 1)) \o cs[Len(cs)].data

LastRate(cs) ==
    IF cs = <<>> THEN DefaultSampleRate
    ELSE IF cs[Len(cs)].rate = 0 THEN DefaultSampleRate
    ELSE cs[Len(cs)].rate

\* C1: in one session onComplete and onError are invoked at most once in
\* total.
C1_AtMostOneCallback == Callbacks <= 1

\* C2: once cancel() has been called, neither onComplete nor onError is
\* invoked any more.
C2_SilentAfterCancel ==
    [][cancelled => (completed' = completed /\ errors' = errors)]_vars

\* C3: once onComplete or onError has fired, no audio message is decoded,
\* appended to the retained chunks or scheduled on the player.
C3_NoChunkAfterCallback ==
    [][Callbacks >= 1 =>
          /\ recv' = recv
          /\ player'.audioChunks = player.audioChunks
          /\ Len(player'.sources) <= Len(player.sources)
          /\ chunkCount' = chunkCount]_vars

\* C3 witness: a callback has fired in a session that had received audio
\* and whose server still has messages to send.
C3_Witness ==
    /\ Callbacks >= 1
    /\ recv # <<>>
    /\ nMsgs < MaxMsgs

\* C4: onComplete fires only when no scheduled playback time was left at
\* the moment the finalizer started.
C4_CompleteAfterPlayback ==
    \A i \in 1..Len(completed) : completed[i].left = 0

C6_CompletionDelivers ==
    (Quiescent /\ seen # {} /\ ~cancelled /\ ~failed) => completed # <<>>

\* C7: when a session is over (completed, failed or cancelled) and nothing
\* is pending, the AudioContext is closed.
C7_DeviceReleased ==
    (Quiescent /\ (cancelled \/ Callbacks >= 1)) => ctxState = "closed"

\* C8: the playback intervals of the scheduled sources are pairwise
\* disjoint.
C8_NoOverlap ==
    \A i, j \in 1..Len(player.sources) :
        i < j =>
            LET a == player.sources[i]
                b == player.sources[j]
            IN  a.begin + a.dur <= b.begin \/ b.begin + b.dur <= a.begin

\* C9: within a playback run the k-th chunk is started at
\* t0 + d1 + .. + d(k-1), with t0 the device time of the first chunk plus
\* the lead, and the scheduled end is t0 + d1 + .. + dn.
C9_Gapless ==
    player.isPlaying =>
        /\ \A k \in 1..Len(runLog) :
              runLog[k].when = player.startTime + Lead + SumDur(runLog, k - 1)
        /\ player.scheduledTime =
              player.startTime + Lead + SumDur(runLog, Len(runLog))

\* C9 witness: a run of at least two chunks of different durations, the
\* later one submitted after the device clock had moved on.
C9_Witness ==
    /\ player.isPlaying
    /\ Len(runLog) >= 2
    /\ runLog[1].dur # runLog[2].dur
    /\ currentTime > player.startTime + Lead

\* C10: after cancel() (which calls stop()) the player is never playing
\* again.
C10_StoppedIsTerminal == cancelled => ~player.isPlaying

\* the messages onError can receive for an error message of the server
ServerErrors == {ServerError(m) : m \in Messages}

\* no timer and no device request of the session is pending
Settled == timers = <<>> /\ ctxOps = <<>>

\* C11: when the one failure of a session is an error message of the
\* server then, once nothing is pending, the channel is closed, the player
\* is stopped with nothing scheduled, and onError has been invoked with the
\* message of the server.
C11_ServerErrorTearsDown ==
    (failure = "server" /\ Settled) =>
        /\ wsState = "closed"
        /\ ~player.isPlaying
        /\ player.sources = <<>>
        /\ \E i \in 1..Len(errors) : errors[i] \in ServerErrors

\* C12: when the one failure of a session is a transport failure (an
\* error event of the socket, a close by the server before any completion
\* message, or a message that cannot be decoded) then, once nothing is
\* pending, onError has been invoked, the channel is closed and the
\* AudioContext of the player is closed.
C12_TransportFailureReported ==
    (failure \in {"transport", "closed", "decode"} /\ Settled) =>
        /\ errors # <<>>
        /\ wsState = "closed"
        /\ ctxState = "closed"

\* C13: a session that has met one failure (an error message, an error
\* event of the socket, an undecodable message or a chunk the device
\* refused) has invoked onError exactly once when nothing is pending any
\* more.
C13_FailureReportedOnce ==
    (failure \in {"server", "transport", "decode", "device"}
        /\ Settled /\ wsState = "closed") => Len(errors) = 1

\* C14: once a message could not be decoded (the one failure of the
\* session), no chunk is added to the retained audio and no source is
\* scheduled any more.
C14_DecodeErrorIsFatal ==
    [][failure = "decode" =>
          /\ player'.audioChunks = player.audioChunks
          /\ Len(player'.sources) <= Len(player.sources)]_vars

\* C15: for a script that fails validation (no dialogue lines, or a blank
\* default voice) narrateScript opens no channel and sends no payload.
C15_InvalidScriptStaysLocal ==
    ~IsValid(ParseScriptContent(script.content), script.voices,
             script.defaultVoice)
        => (wsState = "none" /\ ~sent)

C17_NoOpInTargetState ==
    /\ player.isPaused => PauseRequest(player, ctxOps) = ctxOps
    /\ ~player.isPaused => ResumeRequest(player, ctxOps) = ctxOps

\* C17 witness: a playing player that is paused, with a chunk scheduled.
C17_Witness ==
    /\ player.isPlaying
    /\ player.isPaused
    /\ player.sources # <<>>

\* one sequence begins with the other
IsPrefix(s, t) == Len(s) <= Len(t) /\ SubSeq(t, 1, Len(s)) = s

\* C18: stop() drops every scheduled source and leaves the retained chunks
\* as they are, so the collected audio is the same before and after; the
\* retained chunks are lost in a step of reset() only.
C18_StopKeepsChunks ==
    [][/\ StopPlayer =>
            /\ player'.sources = <<>>
            /\ player'.audioChunks = player.audioChunks
            /\ GetCollectedAudio(player'.audioChunks)
                 = GetCollectedAudio(player.audioChunks)
       /\ ~IsPrefix(player.audioChunks, player'.audioChunks) =>
            /\ player' = Reset(player)
            /\ player'.audioChunks = <<>>]_vars

\* C18 witness: a player stopped on an open context that still holds the
\* chunks it was given.
C18_Witness ==
    /\ ~player.isPlaying
    /\ player.sources = <<>>
    /\ player.audioChunks # <<>>
    /\ ctxState = "running"
    /\ ctxOps = <<>>

\* addPCMChunk is called with a chunk the device refuses, on a context
\* that needs no resume() first
RejectedChunk ==
    \E c \in Payloads :
        /\ ~DeviceAccepts(c.data)
        /\ ~(ctxState = "suspended" /\ ~player.isPaused)
        /\ AddPCMChunk(c)

\* C19: when the device rejects the chunk of an addPCMChunk call, the
\* player keeps the sources scheduled before and its playing and paused
\* state is what it was before the call.
C19_RejectionLeavesPlayback ==
    [][RejectedChunk =>
          /\ player'.sources = player.sources
          /\ player'.isPlaying = player.isPlaying
          /\ player'.isPaused = player.isPaused]_vars

\* C20: once the device has refused a chunk of the session, the session
\* retains no further chunk and calls onComplete no more.
C20_DeviceFailureAborts ==
    [][failure = "device" =>
          /\ player'.audioChunks = player.audioChunks
          /\ completed' = completed]_vars

\* the sessions of the plugin whose player is not stopped and whose socket
\* is not closed
LiveSessions ==
    {i \in 1..Len(host.sessions) :
        ~host.sessions[i].stopped /\ host.sessions[i].ws # "closed"}

\* C21: at most one session of the plugin has a live player and an open
\* channel.
C21_OneActiveSession == Cardinality(LiveSessions) <= 1

\* C22: a session has handled an audio message or called onComplete or
\* onError only after its player was attached to the status bar.
C22_AttachedBeforeEvents ==
    \A i \in 1..Len(host.sessions) :
        (host.sessions[i].chunks > 0 \/ host.sessions[i].reported)
            => host.sessions[i].attached

\* C22 witness: a session that has handled an audio message and has then
\* reported, its player attached beforehand.
C22_Witness ==
    \E i \in 1..Len(host.sessions) :
        /\ host.sessions[i].chunks > 0
        /\ host.sessions[i].reported
        /\ host.sessions[i].attached

\* the unsigned little-endian number in bytes off + 1 .. off + n of b
RECURSIVE LE(_, _, _)
LE(b, off, n) ==
    IF n = 0 THEN 0 ELSE b[off + 1] + 256 * LE(b, off + 1, n - 1)

\* the usual sample rates
UsualRates == {8000, 22050, 44100, 48000}

\* C23: for a non-empty sample sequence of length n and a usual rate the
\* file is 44 + 2n bytes long, its data size field is 2n, its RIFF size
\* field 36 + 2n, its sample rate field the rate, its byte rate field twice
\* the rate, with one channel and 16 bits per sample.
C23_HeaderMatchesPayload ==
    (wav.done /\ wav.samples # <<>> /\ wav.sampleRate \in UsualRates) =>
        LET n == Len(wav.samples)
            b == wav.bytes
        IN  /\ Len(b) = 44 + 2 * n
            /\ LE(b, 40, 4) = 2 * n
            /\ LE(b, 4, 4) = 36 + 2 * n
            /\ LE(b, 24, 4) = wav.sampleRate
            /\ LE(b, 28, 4) = wav.sampleRate * 2
            /\ LE(b, 22, 2) = 1
            /\ LE(b, 34, 2) = 16

\* C23 witness: the longest sequence encoded at 48000 Hz.
C23_Witness ==
    /\ wav.done
    /\ Len(wav.samples) = MaxSamples
    /\ wav.sampleRate = 48000

\* Math.max(-1, Math.min(1, s)) of every sample
Clamped(samples) ==
    [i \in 1..Len(samples) |-> Max(-1000, Min(1000, samples[i]))]

\* the signed 16-bit value of sample i of a file
SampleAt(b, i) ==
    LET u == LE(b, 44 + 2 * (i - 1), 2)
    IN  IF u >= 32768 THEN u - 65536 ELSE u

\* C24: the file of a sample sequence is the file of the clamped sequence,
\* a sample beyond an end of the range is encoded as that end, and
\* [1.5, -2.0, 0.0] gives the values of [1.0, -1.0, 0.0].
C24_ClampBeforeScale ==
    wav.done =>
        /\ wav.bytes = EncodeWAV(Clamped(wav.samples), wav.sampleRate)
        /\ \A i \in 1..Len(wav.samples) :
              /\ wav.samples[i] >= 1000 => SampleAt(wav.bytes, i) = 32767
              /\ wav.samples[i] <= -1000 => SampleAt(wav.bytes, i) = -32768
        /\ wav.samples = <<1500, -2000, 0>> =>
              /\ SampleAt(wav.bytes, 1) = 32767
              /\ SampleAt(wav.bytes, 2) = -32768
              /\ SampleAt(wav.bytes, 3) = 0

\* C24 witness: [1.5, -2.0, 0.0] encoded at 8000 Hz.
C24_Witness ==
    /\ wav.done
    /\ wav.samples = <<1500, -2000, 0>>
    /\ wav.sampleRate = 8000

\* C25: called with a sample rate that is not positive, the encoder throws
\* and returns no buffer.
C25_RejectsBadRate ==
    (wav.done /\ wav.sampleRate <= 0) => (wav.threw /\ wav.bytes = <<>>)

\* the lines of a file after its frontmatter
Body(content) == SubSeq(content, FrontmatterEnd(content) + 1, Len(content))

\* a line that is not empty and is no header, rule, italic instruction or
\* tag
IsDialogue(t) ==
    LET trimmed == Trim(t)
    IN  /\ trimmed # <<>>
        /\ trimmed[1] # "#"
        /\ trimmed # Rule
        /\ ~(trimmed[1] = "*" /\ trimmed[Len(trimmed)] = "*")
        /\ ~IsTag(trimmed)

\* a dialogue line stands before every tag of the body
HasOrphan(body) ==
    \E i \in 1..Len(body) :
        /\ IsDialogue(body[i])
        /\ \A j \in 1..(i - 1) : ~IsTag(Trim(body[j]))

\* C26: a file with a dialogue line before any character tag is reported
\* with an error by parsing and validating it.
C26_OrphanLineIsError ==
    (parsed.stage = "validated" /\ HasOrphan(Body(script.content)))
        => parsed.errors # <<>>

\* the default voice is not blank
HasDefaultVoice == script.defaultVoice # <<>> /\ Trim(script.defaultVoice) # <<>>

\* the characters of the dialogue lines
Speakers == {parsed.lines[i].character : i \in 1..Len(parsed.lines)}

\* a character has no voice in the voice map
NoVoice(c) == c \notin DOMAIN script.voices \/ script.voices[c] = <<>>

\* C27: with a default voice and two speaking characters of which exactly
\* one has no voice, the result is valid, names that character as the only
\* unmapped one and has exactly one warning.
C27_OneWarningForUnmapped ==
    (/\ parsed.stage = "validated"
     /\ HasDefaultVoice
     /\ Cardinality(Speakers) = 2
     /\ Cardinality({c \in Speakers : NoVoice(c)}) = 1)
        => /\ parsed.isValid
           /\ parsed.unmappedCharacters = {c \in Speakers : NoVoice(c)}
           /\ Len(parsed.warnings) = 1

\* C28: the result is invalid exactly when there is no dialogue line or the
\* default voice is blank; characters without a voice alone leave it valid
\* and without an error; isValid is the same as having no error.
C28_InvalidIffNoLinesOrNoDefault ==
    parsed.stage = "validated" =>
        /\ ~parsed.isValid <=> (parsed.lines = <<>> \/ ~HasDefaultVoice)
        /\ parsed.isValid <=> (parsed.errors = <<>>)
        /\ (parsed.lines # <<>> /\ HasDefaultVoice
              /\ \E c \in Speakers : NoVoice(c))
             => (parsed.isValid /\ parsed.errors = <<>>)

\* C28 witness: a validated script with a default voice in which a
\* character has no voice.
C28_Witness ==
    /\ parsed.stage = "validated"
    /\ parsed.isValid
    /\ parsed.unmappedCharacters # {}
    /\ Cardinality(Speakers) = 2

\* the entries of a frontmatter that name a voice: the key ends in
\* " VOICE" and the value is a string that is not blank
VoiceEntries(meta) ==
    {i \in 1..Len(meta) :
        /\ EndsWithVoice(meta[i].key)
        /\ meta[i].isString
        /\ Trim(meta[i].value) # <<>>}

\* the key without its last word
StripSuffix(key) == SubSeq(key, 1, Len(key) - 1)

\* C29: the extracted map has an entry for exactly the voice entries of
\* the frontmatter, under the key without its trailing " VOICE", with the
\* trimmed value, which is never empty.
C29_ExtractsVoiceEntries ==
    parsed.stage = "extracted" =>
        /\ DOMAIN parsed.voices
             = {StripSuffix(parsed.meta[i].key) : i \in VoiceEntries(parsed.meta)}
        /\ \A i \in VoiceEntries(parsed.meta) :
              /\ StripSuffix(parsed.meta[i].key) \in DOMAIN parsed.voices
              /\ parsed.voices[StripSuffix(parsed.meta[i].key)]
                   = Trim(parsed.meta[i].value)
        /\ \A c \in DOMAIN parsed.voices : parsed.voices[c] # <<>>

\* the dialogue lines of a body as stated: every dialogue line, under the
\* name of the most recent tag before it (cur), numbered from n + 1
RECURSIVE StatedLines(_, _, _)
StatedLines(ls, cur, n) ==
    IF ls = <<>> THEN <<>>
    ELSE LET trimmed == Trim(Head(ls))
         IN  IF IsTag(trimmed)
             THEN StatedLines(Tail(ls),
                              Trim(SubSeq(trimmed, 2, Len(trimmed) - 1)), n)
             ELSE IF IsDialogue(Head(ls))
                  THEN << [character |-> cur, text |-> trimmed,
                           lineNumber |-> n + 1] >>
                       \o StatedLines(Tail(ls), cur, n + 1)
                  ELSE StatedLines(Tail(ls), cur, n)

\* C30: the parser emits one dialogue line for every line of the body that
\* is not empty and no header, rule, italic instruction or tag, under the
\* most recent tag before it, in the order of the file, numbered 1, 2, ...
C30_EveryDialogueLineEmitted ==
    parsed.stage \in {"parsed", "validated"} =>
        parsed.lines = StatedLines(Body(script.content), <<>>, 0)

\* C31: getCleanScriptContent removes only the frontmatter block and the
\* section of the generation instructions: the dialogue lines parsed from
\* the cleaned content are the dialogue lines parsed from the raw content,
\* also for a content without frontmatter that has horizontal rules.
C31_CleaningKeepsDialogue ==
    parsed.stage = "cleaned" =>
        ParseScriptContent(parsed.cleaned) = ParseScriptContent(script.content)

\* the three marks of a script: the flag of the frontmatter, the name,
\* a key of the frontmatter that ends in " VOICE"
HasScriptMark ==
    \/ parsed.file.frontmatter /\ parsed.file.narrator_script = "true"
    \/ EndsWithScript(parsed.file.basename)
    \/ /\ parsed.file.frontmatter
       /\ \E i \in 1..Len(parsed.meta) : EndsWithVoice(parsed.meta[i].key)

\* C32 as stated: isScriptFile is true whenever the flag is set, or the
\* name ends with the script suffix, or a key of the frontmatter ends in
\* " VOICE", and false when none of the three holds.
C32_ScriptIffAnyMark ==
    parsed.stage = "checked" => (parsed.isScript <=> HasScriptMark)

\* C32, amended: a file that is not markdown is never a script; a markdown
\* file is a script exactly when the flag is true, or its name ends with
\* "-script", or a key of its frontmatter ends in " VOICE".
C32_MarkdownScriptIffAnyMark ==
    parsed.stage = "checked" =>
        (parsed.isScript <=>
            (parsed.file.extension = "md" /\ HasScriptMark))

\* a markdown file is found to be a script by a key of its frontmatter
\* alone
C32_Witness ==
    /\ parsed.stage = "checked"
    /\ parsed.isScript
    /\ parsed.file.extension = "md"
    /\ parsed.file.narrator_script # "true"
    /\ ~EndsWithScript(parsed.file.basename)

\* C33: when onComplete or onError of an older session fires after the
\* player of a newer session has been attached to the status bar, the
\* player and the cancel function of the newer session stay attached: the
\* end of a session detaches only its own player.
C33_EndDetachesOwnPlayer ==
    [][\A i \in 1..Len(host.sessions) :
           (SessionEnds(i) /\ host.currentPlayer \notin {0, i})
               => host'.currentPlayer = host.currentPlayer]_vars

\* C34: while a player is attached, the flag of the play/pause button
\* agrees with the player: the bar shows playing exactly when the player
\* is not paused, for every sequence of toggles and chunks, a toggle
\* before the first chunk included.
C34_ButtonAgreesWithPlayer ==
    host.currentPlayer # 0 => (host.isPlaying <=> ~player.isPaused)

\* the last source the player has started
LastSource(p) == p.sources[Len(p.sources)]

C36_PausedImpliesPlaying ==
    player.isPaused => player.isPlaying

\* C37: the retained chunks are the chunks the device accepted: a chunk
\* the device refuses is not added to them, so getCollectedAudio never
\* holds a rejected chunk.
C37_RejectedChunkNotRetained ==
    [][\A c \in Payloads :
          (AddPCMChunk(c) /\ ~DeviceAccepts(c.data))
              => player'.audioChunks = player.audioChunks]_vars

\* requests whose answer has not come: requests of the API client, and
\* voice previews that wait for narrateText
InFlight ==
    host.requests
        + Cardinality({i \in 1..Len(host.previews) :
                          host.previews[i] = "request"})

\* C38: the loading spinner is hidden only when all requests are over:
\* for every interleaving of request starts and ends, the voice preview
\* included, the spinner is visible while at least one request is under
\* way, and the counter of active requests is never negative.
C38_SpinnerWhileInFlight ==
    /\ InFlight > 0 => host.spinner = "inline-block"
    /\ host.activeRequests >= 0

\* the class of error the claim gives a status
ErrorOfStatus(s) ==
    CASE s \in {401, 403} -> "AuthenticationError"
      [] s = 400 -> "ValidationError"
      [] s = 429 -> "RateLimitError"
      [] s = 404 -> "NotFoundError"
      [] OTHER -> "NarratorApiError"

\* C39: apiRequest without an API key throws AuthenticationError and
\* sends no request; every response that is not OK is thrown as the error
\* of its status: 401 and 403 AuthenticationError, 400 ValidationError,
\* 429 RateLimitError, 404 NotFoundError, any other status a
\* NarratorApiError that carries the status.
C39_ErrorOfStatus ==
    api.outcome # "none" =>
        /\ api.config # "key" =>
              api.outcome = "AuthenticationError" /\ ~api.fetched
        /\ (api.config = "key" /\ api.response.status \notin {0, 200}) =>
              /\ api.outcome = ErrorOfStatus(api.response.status)
              /\ api.outcome = "NarratorApiError" =>
                    api.status = api.response.status

=============================================================================
